---------------------------- MODULE Spec2Model ----------------------------
(***************************************************************************)
(* Model of the FreeSurfer binary decoders (freesurfer.js) and of the      *)
(* label assembly in loadAnnotationLabels (loader.js).                     *)
(*                                                                         *)
(* A buffer is a sequence of bytes (0..255).  Offsets are 0-based as in    *)
(* the source, so byte `offset` is buffer[offset + 1].  A 32-bit float is  *)
(* represented by its bit pattern read as a signed 32-bit integer: the     *)
(* decoders only move floats around, they never compute with them.         *)
(* A string is the sequence of its character codes.                        *)
(*                                                                         *)
(* The second half of the module models the viewer: label selection        *)
(* (labels.js), opacity animations and the camera interaction listener     *)
(* (rendering.js), the camera animation (camera.js) and geometry and atlas *)
(* changes (main.js, loader.js) over the state object of state.js.         *)
(***************************************************************************)
EXTENDS Integers, Sequences, FiniteSets, TLC

VARIABLES call, file, buffer, rhFile, rhBuffer, pc, result

\* The viewer: state.js fields, the renderer's actors, each actor's opacity,
\* the opacityAnimations map, the pending camera animations, the interactor's
\* listener flag and listeners, and the geometry loads in flight.
\* lastTarget records the target of the latest animateOpacity call per actor
\* and actorsCreated counts the actors made so far.
VARIABLES currentSelectedLabel, labelsData, currentGeometry, hemisphereData,
          rendererActors, actorOpacity, opacityAnimations, lastTarget,
          cameraAnimations, occlusionListenerActive, animationListeners,
          geometryLoads, geometryChanges, actorsCreated

decoderVars == <<call, file, buffer, rhFile, rhBuffer, pc, result>>

viewerVars ==
  <<currentSelectedLabel, labelsData, currentGeometry, hemisphereData,
    rendererActors, actorOpacity, opacityAnimations, lastTarget,
    cameraAnimations, occlusionListenerActive, animationListeners,
    geometryLoads, geometryChanges, actorsCreated>>

vars == <<decoderVars, viewerVars>>

(***************************************************************************)
(* DataView primitives.  A read outside the buffer throws a RangeError in  *)
(* the engine; CanRead is the condition under which it does not.           *)
(***************************************************************************)
byteLength(buf) == Len(buf)

CanRead(buf, offset, width) == offset >= 0 /\ offset + width <= byteLength(buf)

getUint8(buf, offset) == buf[offset + 1]

\* Big-endian two's complement: the top byte carries the sign.
getInt32(buf, offset) ==
  LET b0 == buf[offset + 1]
      b1 == buf[offset + 2]
      b2 == buf[offset + 3]
      b3 == buf[offset + 4]
      hi == IF b0 >= 128 THEN b0 - 256 ELSE b0
  IN  hi * 16777216 + b1 * 65536 + b2 * 256 + b3

\* The float's bit pattern (see the module comment).
getFloat32(buf, offset) == getInt32(buf, offset)

\* An exception leaving a decoder: site names the throw statement, at the
\* loop index it mentions (0 when it mentions none).
Throw(site, at) == [status |-> site, at |-> at]

RangeError == Throw("RangeError", 0)

(***************************************************************************)
(* parseFreeSurferSurface                                                  *)
(***************************************************************************)
RECURSIVE ReadComment(_, _, _)
ReadComment(buf, offset, comment) ==
  IF ~(offset < byteLength(buf))
  THEN [ok |-> TRUE, comment |-> comment, offset |-> offset]
  ELSE LET char == getUint8(buf, offset)
           next == offset + 1
       IN  IF char = 10
           THEN IF ~CanRead(buf, next, 1)
                THEN [ok |-> FALSE, comment |-> comment, offset |-> next]
                ELSE IF getUint8(buf, next) = 10
                     THEN [ok |-> TRUE, comment |-> comment, offset |-> next + 1]
                     ELSE ReadComment(buf, next, Append(comment, char))
           ELSE ReadComment(buf, next, Append(comment, char))

\* ReadVertices with the loop bound one short.
RECURSIVE ReadVerticesOffByOne(_, _, _, _, _)
ReadVerticesOffByOne(buf, offset, i, numVertices, vertices) ==
  IF ~(i < numVertices - 1)
  THEN [ok |-> TRUE, items |-> vertices, offset |-> offset]
  ELSE IF ~(CanRead(buf, offset, 4) /\ CanRead(buf, offset + 4, 4)
            /\ CanRead(buf, offset + 8, 4))
       THEN [ok |-> FALSE, items |-> vertices, offset |-> offset]
       ELSE ReadVerticesOffByOne(buf, offset + 12, i + 1, numVertices,
              Append(vertices, <<getFloat32(buf, offset),
                                 getFloat32(buf, offset + 4),
                                 getFloat32(buf, offset + 8)>>))

RECURSIVE ReadVertices(_, _, _, _, _)
ReadVertices(buf, offset, i, numVertices, vertices) ==
  IF ~(i < numVertices)
  THEN [ok |-> TRUE, items |-> vertices, offset |-> offset]
  ELSE IF ~(CanRead(buf, offset, 4) /\ CanRead(buf, offset + 4, 4)
            /\ CanRead(buf, offset + 8, 4))
       THEN [ok |-> FALSE, items |-> vertices, offset |-> offset]
       ELSE ReadVertices(buf, offset + 12, i + 1, numVertices,
              Append(vertices, <<getFloat32(buf, offset),
                                 getFloat32(buf, offset + 4),
                                 getFloat32(buf, offset + 8)>>))

\* ReadTriangles with the second and third index exchanged (winding flipped).
RECURSIVE ReadTrianglesFlipped(_, _, _, _, _)
ReadTrianglesFlipped(buf, offset, i, numFaces, triangles) ==
  IF ~(i < numFaces)
  THEN [ok |-> TRUE, items |-> triangles, offset |-> offset]
  ELSE IF ~(CanRead(buf, offset, 4) /\ CanRead(buf, offset + 4, 4)
            /\ CanRead(buf, offset + 8, 4))
       THEN [ok |-> FALSE, items |-> triangles, offset |-> offset]
       ELSE ReadTrianglesFlipped(buf, offset + 12, i + 1, numFaces,
              Append(triangles, <<getInt32(buf, offset),
                                  getInt32(buf, offset + 8),
                                  getInt32(buf, offset + 4)>>))

RECURSIVE ReadTriangles(_, _, _, _, _)
ReadTriangles(buf, offset, i, numFaces, triangles) ==
  IF ~(i < numFaces)
  THEN [ok |-> TRUE, items |-> triangles, offset |-> offset]
  ELSE IF ~(CanRead(buf, offset, 4) /\ CanRead(buf, offset + 4, 4)
            /\ CanRead(buf, offset + 8, 4))
       THEN [ok |-> FALSE, items |-> triangles, offset |-> offset]
       ELSE ReadTriangles(buf, offset + 12, i + 1, numFaces,
              Append(triangles, <<getInt32(buf, offset),
                                  getInt32(buf, offset + 4),
                                  getInt32(buf, offset + 8)>>))

SurfaceMagicOk(m1, m2, m3) == ~(m1 # 255 \/ m2 # 255 \/ m3 # 254)

parseFreeSurferSurface(buf) ==
  IF ~CanRead(buf, 0, 3) THEN RangeError
  ELSE IF ~SurfaceMagicOk(getUint8(buf, 0), getUint8(buf, 1), getUint8(buf, 2))
  THEN Throw("InvalidMagic", 0)
  ELSE
    LET c == ReadComment(buf, 3, <<>>) IN
    IF ~c.ok THEN RangeError
    ELSE IF ~(CanRead(buf, c.offset, 4) /\ CanRead(buf, c.offset + 4, 4))
    THEN RangeError
    ELSE
      LET numVertices == getInt32(buf, c.offset)
          numFaces    == getInt32(buf, c.offset + 4)
          v == ReadVertices(buf, c.offset + 8, 0, numVertices, <<>>)
      IN  IF ~v.ok THEN RangeError
          ELSE LET t == ReadTriangles(buf, v.offset, 0, numFaces, <<>>) IN
               IF ~t.ok THEN RangeError
               ELSE [status |-> "ok", vertices |-> v.items,
                     triangles |-> t.items, numVertices |-> numVertices,
                     numFaces |-> numFaces, comment |-> c.comment]

(***************************************************************************)
(* parseFreeSurferCurvature                                                *)
(***************************************************************************)
\* ReadCurvature stepping by the values-per-vertex field of the header.
RECURSIVE ReadCurvatureStrided(_, _, _, _, _)
ReadCurvatureStrided(buf, offset, i, numVertices, curvature) ==
  IF ~(i < numVertices)
  THEN [ok |-> TRUE, items |-> curvature, offset |-> offset]
  ELSE IF ~CanRead(buf, offset, 4)
       THEN [ok |-> FALSE, items |-> curvature, offset |-> offset]
       ELSE ReadCurvatureStrided(buf, offset + 4 * getInt32(buf, 11), i + 1,
              numVertices, Append(curvature, getFloat32(buf, offset)))

RECURSIVE ReadCurvature(_, _, _, _, _)
ReadCurvature(buf, offset, i, numVertices, curvature) ==
  IF ~(i < numVertices)
  THEN [ok |-> TRUE, items |-> curvature, offset |-> offset]
  ELSE IF ~CanRead(buf, offset, 4)
       THEN [ok |-> FALSE, items |-> curvature, offset |-> offset]
       ELSE ReadCurvature(buf, offset + 4, i + 1, numVertices,
              Append(curvature, getFloat32(buf, offset)))

CurvatureMagicOk(m1, m2, m3) == ~(m1 # 255 \/ m2 # 255 \/ m3 # 255)

\* new Float32Array(n) throws a RangeError for a negative length.
parseFreeSurferCurvature(buf) ==
  IF ~CanRead(buf, 0, 3) THEN RangeError
  ELSE IF ~CurvatureMagicOk(getUint8(buf, 0), getUint8(buf, 1), getUint8(buf, 2))
  THEN Throw("InvalidMagic", 0)
  ELSE IF ~(CanRead(buf, 3, 4) /\ CanRead(buf, 7, 4) /\ CanRead(buf, 11, 4))
  THEN RangeError
  ELSE
    LET numVertices == getInt32(buf, 3)
        r == ReadCurvature(buf, 15, 0, numVertices, <<>>)
    IN  IF numVertices < 0 THEN RangeError
        ELSE IF ~r.ok THEN RangeError
        ELSE [status |-> "ok", curvature |-> r.items]

(***************************************************************************)
(* parseFreeSurferAnnotation                                               *)
(***************************************************************************)
MaxVertexCount == 10000000

MaxFilenameLength == 10000

MaxTableEntries == 10000

MaxNameLength == 1000

\* colorTable: null
NullTable == [isNull |-> TRUE, numEntries |-> 0, entries |-> <<>>]

\* ReadVertexPairs stopping quietly at the end of the buffer, as the
\* colour-table loop does, instead of throwing.
RECURSIVE ReadVertexPairsBestEffort(_, _, _, _, _, _)
ReadVertexPairsBestEffort(buf, offset, i, numVertices, vertexIndices, vertexLabels) ==
  IF ~(i < numVertices)
  THEN [ok |-> TRUE, at |-> i, offset |-> offset,
        vertexIndices |-> vertexIndices, vertexLabels |-> vertexLabels]
  ELSE IF offset + 8 > byteLength(buf)
       THEN [ok |-> TRUE, at |-> i, offset |-> offset,
             vertexIndices |-> vertexIndices, vertexLabels |-> vertexLabels]
       ELSE ReadVertexPairsBestEffort(buf, offset + 8, i + 1, numVertices,
              Append(vertexIndices, getInt32(buf, offset)),
              Append(vertexLabels, getInt32(buf, offset + 4)))

\* The vertex loop: either every pair is read, or the loop throws at pair i.
RECURSIVE ReadVertexPairs(_, _, _, _, _, _)
ReadVertexPairs(buf, offset, i, numVertices, vertexIndices, vertexLabels) ==
  IF ~(i < numVertices)
  THEN [ok |-> TRUE, at |-> i, offset |-> offset,
        vertexIndices |-> vertexIndices, vertexLabels |-> vertexLabels]
  ELSE IF offset + 8 > byteLength(buf)
       THEN [ok |-> FALSE, at |-> i, offset |-> offset,
             vertexIndices |-> vertexIndices, vertexLabels |-> vertexLabels]
       ELSE ReadVertexPairs(buf, offset + 8, i + 1, numVertices,
              Append(vertexIndices, getInt32(buf, offset)),
              Append(vertexLabels, getInt32(buf, offset + 4)))

\* ReadName appending every byte, zero bytes included.
RECURSIVE ReadNameKeepZeros(_, _, _, _, _)
ReadNameKeepZeros(buf, offset, j, nameLength, name) ==
  IF ~(j < nameLength) THEN [offset |-> offset, name |-> name]
  ELSE IF offset >= byteLength(buf) THEN [offset |-> offset, name |-> name]
  ELSE ReadNameKeepZeros(buf, offset + 1, j + 1, nameLength,
                         Append(name, getUint8(buf, offset)))

\* The name loop: a zero byte is consumed but not appended; the loop stops
\* (without failing) at the end of the buffer.
RECURSIVE ReadName(_, _, _, _, _)
ReadName(buf, offset, j, nameLength, name) ==
  IF ~(j < nameLength) THEN [offset |-> offset, name |-> name]
  ELSE IF offset >= byteLength(buf) THEN [offset |-> offset, name |-> name]
  ELSE LET charCode == getUint8(buf, offset) IN
       ReadName(buf, offset + 1, j + 1, nameLength,
                IF charCode > 0 THEN Append(name, charCode) ELSE name)

\* LabelValue with the channel weights in the opposite order.
LabelValueSwapped(r, g, b) == r * 65536 + g * 256 + b

\* Compute label value (R + G*256 + B*65536)
LabelValue(r, g, b) == r + g * 256 + b * 65536

\* NameLengthOk without the lower bound.
NameLengthOkNoLowerBound(nameLength) == ~(nameLength > MaxNameLength)

NameLengthOk(nameLength) == ~(nameLength < 0 \/ nameLength > MaxNameLength)

\* ReadEntries pushing the entry it was reading when the colour fields do
\* not fit, with the colour left at zero.
RECURSIVE ReadEntriesPartial(_, _, _, _, _)
ReadEntriesPartial(buf, offset, i, numTableEntries, entries) ==
  IF ~(i < numTableEntries) THEN entries
  ELSE IF offset + 4 > byteLength(buf) THEN entries
  ELSE IF offset + 8 > byteLength(buf) THEN entries
  ELSE
    LET structure  == getInt32(buf, offset)
        nameLength == getInt32(buf, offset + 4)
    IN  IF ~NameLengthOk(nameLength) THEN entries
        ELSE
          LET nm == ReadName(buf, offset + 8, 0, nameLength, <<>>) IN
          IF nm.offset + 16 > byteLength(buf)
          THEN Append(entries,
                      [structure |-> structure, name |-> nm.name,
                       r |-> 0, g |-> 0, b |-> 0, a |-> 0, label |-> 0])
          ELSE
            LET r == getInt32(buf, nm.offset)
                g == getInt32(buf, nm.offset + 4)
                b == getInt32(buf, nm.offset + 8)
                a == getInt32(buf, nm.offset + 12)
            IN  ReadEntriesPartial(buf, nm.offset + 16, i + 1, numTableEntries,
                  Append(entries,
                         [structure |-> structure, name |-> nm.name,
                          r |-> r, g |-> g, b |-> b, a |-> a,
                          label |-> LabelValue(r, g, b)]))

\* The colour-table loop: every `break` returns the entries pushed so far.
RECURSIVE ReadEntries(_, _, _, _, _)
ReadEntries(buf, offset, i, numTableEntries, entries) ==
  IF ~(i < numTableEntries) THEN entries
  ELSE IF offset + 4 > byteLength(buf) THEN entries
  ELSE IF offset + 8 > byteLength(buf) THEN entries
  ELSE
    LET structure  == getInt32(buf, offset)
        nameLength == getInt32(buf, offset + 4)
    IN  IF ~NameLengthOk(nameLength) THEN entries
        ELSE
          LET nm == ReadName(buf, offset + 8, 0, nameLength, <<>>) IN
          IF nm.offset + 16 > byteLength(buf) THEN entries
          ELSE
            LET r == getInt32(buf, nm.offset)
                g == getInt32(buf, nm.offset + 4)
                b == getInt32(buf, nm.offset + 8)
                a == getInt32(buf, nm.offset + 12)
            IN  ReadEntries(buf, nm.offset + 16, i + 1, numTableEntries,
                  Append(entries,
                         [structure |-> structure, name |-> nm.name,
                          r |-> r, g |-> g, b |-> b, a |-> a,
                          label |-> LabelValue(r, g, b)]))

\* VertexCountOk with the ceiling itself rejected.
VertexCountOkExclusive(numVertices) ==
  ~(numVertices < 0 \/ numVertices >= MaxVertexCount)

VertexCountOk(numVertices) == ~(numVertices < 0 \/ numVertices > MaxVertexCount)

\* ColorTablePresent with the test inverted.
ColorTablePresentInverted(hasColorTable) == hasColorTable # 1

\* if (hasColorTable === 1)
ColorTablePresent(hasColorTable) == hasColorTable = 1

\* AtEndOfBuffer only when the cursor is past the end.
AtEndOfBufferStrict(buf, offset) == offset > byteLength(buf)

\* if (offset >= buffer.byteLength): nothing follows the vertex section.
AtEndOfBuffer(buf, offset) == offset >= byteLength(buf)

AnnotationResult(numVertices, vertexIndices, vertexLabels, colorTable) ==
  [status |-> "ok", numVertices |-> numVertices,
   vertexIndices |-> vertexIndices, vertexLabels |-> vertexLabels,
   colorTable |-> colorTable]

FilenameLengthOk(filenameLength) ==
  ~(filenameLength < 0 \/ filenameLength > MaxFilenameLength)

\* TableEntriesOk with the ceiling itself rejected.
TableEntriesOkExclusive(numTableEntries) ==
  ~(numTableEntries < 0 \/ numTableEntries >= MaxTableEntries)

TableEntriesOk(numTableEntries) ==
  ~(numTableEntries < 0 \/ numTableEntries > MaxTableEntries)

\* The colour-table section, entered when hasColorTable === 1; `offset` is
\* just after the flag.  Yields the table, or the exception thrown.
ReadColorTable(buf, offset) ==
  IF ~CanRead(buf, offset, 4) THEN RangeError
  ELSE
    LET versionOrNumEntries == getInt32(buf, offset)
        isVersion2 == versionOrNumEntries < 0
        o1 == IF isVersion2 THEN offset + 8 ELSE offset + 4
    IN  IF ~CanRead(buf, o1, 4) THEN RangeError
        ELSE
          LET filenameLength == getInt32(buf, o1) IN
          IF ~FilenameLengthOk(filenameLength)
          THEN Throw("InvalidFilenameLength", 0)
          ELSE
            LET o2 == o1 + 4 + filenameLength IN
            IF o2 + 4 > byteLength(buf) THEN Throw("NotEnoughData", 0)
            ELSE
              LET numTableEntries == getInt32(buf, o2) IN
              IF ~TableEntriesOk(numTableEntries)
              THEN Throw("InvalidNumTableEntries", 0)
              ELSE [status |-> "ok", isNull |-> FALSE,
                    numEntries |-> numTableEntries,
                    entries |-> ReadEntries(buf, o2 + 4, 0, numTableEntries, <<>>)]

parseFreeSurferAnnotation(buf) ==
  IF ~CanRead(buf, 0, 4) THEN RangeError
  ELSE
    LET numVertices == getInt32(buf, 0) IN
    IF ~VertexCountOk(numVertices) THEN Throw("InvalidNumVertices", 0)
    ELSE
      LET v == ReadVertexPairs(buf, 4, 0, numVertices, <<>>, <<>>) IN
      IF ~v.ok THEN Throw("VertexOverflow", v.at)
      ELSE IF AtEndOfBuffer(buf, v.offset)
      THEN AnnotationResult(numVertices, v.vertexIndices, v.vertexLabels, NullTable)
      ELSE IF ~CanRead(buf, v.offset, 4) THEN RangeError
      ELSE
        LET hasColorTable == getInt32(buf, v.offset) IN
        IF ColorTablePresent(hasColorTable)
        THEN LET t == ReadColorTable(buf, v.offset + 4) IN
             IF t.status # "ok" THEN t
             ELSE AnnotationResult(numVertices, v.vertexIndices, v.vertexLabels,
                    [isNull |-> FALSE, numEntries |-> t.numEntries,
                     entries |-> t.entries])
        ELSE AnnotationResult(numVertices, v.vertexIndices, v.vertexLabels,
                              NullTable)

(***************************************************************************)
(* loadAnnotationLabels                                                    *)
(***************************************************************************)
\* 'unknown'
NameUnknownLower == <<117, 110, 107, 110, 111, 119, 110>>

\* 'Unknown'
NameUnknownCap == <<85, 110, 107, 110, 111, 119, 110>>

\* 'corpuscallosum'
NameCorpusCallosum ==
  <<99, 111, 114, 112, 117, 115, 99, 97, 108, 108, 111, 115, 117, 109>>

\* 'Medial_wall'
NameMedialWall == <<77, 101, 100, 105, 97, 108, 95, 119, 97, 108, 108>>

\* HemiSuffix giving both hemispheres the suffix '-lh'.
HemiSuffixShared(hemi) == <<45, 108, 104>>

\* '-lh' and '-rh'
HemiSuffix(hemi) == IF hemi = "lh" THEN <<45, 108, 104>> ELSE <<45, 114, 104>>

\* The `continue` test of both hemisphere loops (strict equality).
IsSkippedName(name) ==
  name = NameUnknownLower \/ name = NameCorpusCallosum
    \/ name = NameUnknownCap \/ name = NameMedialWall

\* FindVertices pushing the position instead of vertexIndices[position].
RECURSIVE FindVerticesPositions(_, _, _, _)
FindVerticesPositions(annotation, label, i, vertices) ==
  IF ~(i < Len(annotation.vertexLabels)) THEN vertices
  ELSE FindVerticesPositions(annotation, label, i + 1,
         IF annotation.vertexLabels[i + 1] = label
         THEN Append(vertices, i)
         ELSE vertices)

\* Find all vertices with this label, scanning positions in increasing order.
RECURSIVE FindVertices(_, _, _, _)
FindVertices(annotation, label, i, vertices) ==
  IF ~(i < Len(annotation.vertexLabels)) THEN vertices
  ELSE FindVertices(annotation, label, i + 1,
         IF annotation.vertexLabels[i + 1] = label
         THEN Append(vertices, annotation.vertexIndices[i + 1])
         ELSE vertices)

\* labels[labelName] = region
SetLabel(labels, labelName, region) ==
  [k \in (DOMAIN labels) \cup {labelName} |->
     IF k = labelName THEN region ELSE labels[k]]

\* HasVertices with the emptiness test dropped.
HasVerticesAlways(vertices) == TRUE

\* if (vertices.length > 0)
HasVertices(vertices) == Len(vertices) > 0

\* One hemisphere's loop over colorTable.entries, from entry index i on.
RECURSIVE ProcessEntries(_, _, _, _, _)
ProcessEntries(labels, annotation, entries, i, hemi) ==
  IF ~(i < Len(entries)) THEN labels
  ELSE
    LET entry == entries[i + 1] IN
    IF IsSkippedName(entry.name)
    THEN ProcessEntries(labels, annotation, entries, i + 1, hemi)
    ELSE
      LET vertices == FindVertices(annotation, entry.label, 0, <<>>) IN
      IF HasVertices(vertices)
      THEN ProcessEntries(
             SetLabel(labels, entry.name \o HemiSuffix(hemi),
                      [hemi |-> hemi, vertices |-> vertices,
                       color |-> <<entry.r, entry.g, entry.b>>]),
             annotation, entries, i + 1, hemi)
      ELSE ProcessEntries(labels, annotation, entries, i + 1, hemi)

ProcessHemisphere(labels, annotation, hemi) ==
  IF annotation.colorTable.isNull THEN labels
  ELSE ProcessEntries(labels, annotation, annotation.colorTable.entries, 0, hemi)

\* Both buffers are decoded first (an exception rejects the promise), then
\* the left and the right hemisphere are processed into one object.
loadAnnotationLabels(lhBuf, rhBuf) ==
  LET lhAnnotation == parseFreeSurferAnnotation(lhBuf) IN
  IF lhAnnotation.status # "ok" THEN lhAnnotation
  ELSE
    LET rhAnnotation == parseFreeSurferAnnotation(rhBuf) IN
    IF rhAnnotation.status # "ok" THEN rhAnnotation
    ELSE [status |-> "ok",
          labels |-> ProcessHemisphere(
                       ProcessHemisphere(<<>>, lhAnnotation, "lh"),
                       rhAnnotation, "rh")]

(***************************************************************************)
(* Input files.  A file is described by the fields its writer stores, laid *)
(* out as the format comments of freesurfer.js give them; the buffer a     *)
(* decoder receives is the first `cut` bytes of that layout.               *)
(***************************************************************************)
MaxVerts == 2

MaxFaces == 2

MaxValues == 3

MaxPairs == 3

MaxEntries == 2

SeqsUpTo(S, n) == UNION {[1..k -> S] : k \in 0..n}

\* Big-endian two's complement bytes of a 32-bit integer.
EncInt32(v) ==
  <<(v \div 16777216) % 256, (v \div 65536) % 256, (v \div 256) % 256, v % 256>>

RECURSIVE EncTriples(_)
EncTriples(ts) ==
  IF ts = <<>> THEN <<>>
  ELSE EncInt32(Head(ts)[1]) \o EncInt32(Head(ts)[2]) \o EncInt32(Head(ts)[3])
       \o EncTriples(Tail(ts))

RECURSIVE EncInts(_)
EncInts(vs) ==
  IF vs = <<>> THEN <<>> ELSE EncInt32(Head(vs)) \o EncInts(Tail(vs))

Prefix(bytes, cut) == SubSeq(bytes, 1, cut)

\* Surface: magic, comment, terminator, numVertices, numFaces, vertices, faces.
SurfaceBytes(f) ==
  f.magic \o f.comment \o f.term \o EncInt32(f.numVertices)
    \o EncInt32(f.numFaces) \o EncTriples(f.vertices) \o EncTriples(f.faces)

SurfaceFile(magic, comment, term, numVertices, numFaces, vertices, faces) ==
  [magic |-> magic, comment |-> comment, term |-> term,
   numVertices |-> numVertices, numFaces |-> numFaces,
   vertices |-> vertices, faces |-> faces, cut |-> 0]

Whole(f, bytes) == [f EXCEPT !.cut = Len(bytes)]

AllCuts(f, bytes) == {[f EXCEPT !.cut = c] : c \in 0..Len(bytes)}

SurfaceMagic == <<255, 255, 254>>

CurvatureMagic == <<255, 255, 255>>

BadMagics ==
  {<<255, 255, 255>>, <<255, 255, 254>>, <<0, 255, 254>>, <<255, 0, 254>>,
   <<255, 255, 0>>}

\* x, y, z as float bit patterns: 0.0, 1.0 and -1.0.
VertexPool ==
  {<<0, 0, 0>>, <<1065353216, 0, 0>>, <<0, -1082130432, 1065353216>>}

\* The second triangle has an index below 0 and one past any vertex count.
FacePool == {<<0, 1, 2>>, <<2, -1, 7>>}

\* '', 'c' and 'c\nd'
Comments == {<<>>, <<99>>, <<99, 10, 100>>}

ValidSurfaceFiles ==
  {SurfaceFile(SurfaceMagic, c, <<10, 10>>, Len(vs), Len(fs), vs, fs) :
     c \in Comments, vs \in SeqsUpTo(VertexPool, MaxVerts),
     fs \in SeqsUpTo(FacePool, MaxFaces)}

BaseSurfaceFiles ==
  {SurfaceFile(SurfaceMagic, c, <<10, 10>>, Len(vs), 1, vs, <<<<2, -1, 7>>>>) :
     c \in {<<>>, <<99, 10, 100>>},
     vs \in {<<>>, <<<<1065353216, 0, 0>>>>}}

SurfaceInputs ==
  {Whole(f, SurfaceBytes(f)) : f \in ValidSurfaceFiles}
  \cup UNION {AllCuts([f EXCEPT !.magic = m], SurfaceBytes(f)) :
                f \in BaseSurfaceFiles, m \in BadMagics \ {SurfaceMagic}}
  \cup UNION {AllCuts([f EXCEPT !.term = t], SurfaceBytes([f EXCEPT !.term = t])) :
                f \in BaseSurfaceFiles, t \in {<<>>, <<10>>, <<10, 10>>}}
  \cup {Whole([f EXCEPT !.numVertices = nv, !.numFaces = nf], SurfaceBytes(f)) :
          f \in BaseSurfaceFiles, nv \in {-1, 0, 1, 2, 10000000},
          nf \in {-1, 0, 1, 2}}

\* Curvature: magic, numVertices, numFaces, valuesPerVertex, values.
CurvatureBytes(f) ==
  f.magic \o EncInt32(f.numVertices) \o EncInt32(f.numFaces)
    \o EncInt32(f.valuesPerVertex) \o EncInts(f.values)

CurvatureFile(magic, numVertices, numFaces, valuesPerVertex, values) ==
  [magic |-> magic, numVertices |-> numVertices, numFaces |-> numFaces,
   valuesPerVertex |-> valuesPerVertex, values |-> values, cut |-> 0]

\* Float bit patterns: 0.0, 1.0.
ValuePool == {0, 1065353216}

CurvatureInputs ==
  {Whole(f, CurvatureBytes(f)) :
     f \in {CurvatureFile(CurvatureMagic, Len(vs), nf, vpv, vs) :
              vs \in SeqsUpTo(ValuePool, MaxValues),
              nf \in {0, 7, -1}, vpv \in {1, 0, -1, 2}}}
  \cup UNION {AllCuts(f, CurvatureBytes(f)) :
                f \in {CurvatureFile(CurvatureMagic, Len(vs), 0, 1, vs) :
                         vs \in SeqsUpTo(ValuePool, MaxValues)}}
  \cup UNION {AllCuts(f, CurvatureBytes(f)) :
                f \in {CurvatureFile(m, 1, 0, 1, <<1065353216>>) :
                         m \in BadMagics \ {CurvatureMagic}}}
  \cup {Whole(f, CurvatureBytes(f)) :
          f \in {CurvatureFile(CurvatureMagic, nv, 0, 1, <<0, 1065353216>>) :
                   nv \in {-1, 0, 1, 3, 10000000}}}

\* Annotation: numVertices, (vertex index, label) pairs, hasColorTable flag,
\* version, max_structure_index (version 2 only), filename length, filename,
\* number of entries, entries (structure, name length, name, r, g, b, a).
EncEntry(e) ==
  EncInt32(e.structure) \o EncInt32(e.nameLength) \o e.name \o EncInt32(e.r)
    \o EncInt32(e.g) \o EncInt32(e.b) \o EncInt32(e.a)

RECURSIVE EncEntries(_)
EncEntries(es) ==
  IF es = <<>> THEN <<>> ELSE EncEntry(Head(es)) \o EncEntries(Tail(es))

RECURSIVE EncPairs(_)
EncPairs(ps) ==
  IF ps = <<>> THEN <<>>
  ELSE EncInt32(Head(ps)[1]) \o EncInt32(Head(ps)[2]) \o EncPairs(Tail(ps))

VertexSectionBytes(f) == EncInt32(f.numVertices) \o EncPairs(f.pairs)

AnnotationBytes(f) ==
  VertexSectionBytes(f) \o EncInt32(f.flag) \o EncInt32(f.version)
    \o (IF f.version < 0 THEN EncInt32(f.maxStructureIndex) ELSE <<>>)
    \o EncInt32(f.filenameLength) \o f.filename \o EncInt32(f.numEntries)
    \o EncEntries(f.entries)

AnnotationFile(pairs, flag, version, entries) ==
  [numVertices |-> Len(pairs), pairs |-> pairs, flag |-> flag,
   version |-> version, maxStructureIndex |-> 35, filenameLength |-> 1,
   filename |-> <<102>>, numEntries |-> Len(entries), entries |-> entries,
   cut |-> 0]

Entry(structure, name, r, g, b) ==
  [structure |-> structure, nameLength |-> Len(name), name |-> name,
   r |-> r, g |-> g, b |-> b, a |-> 0]

\* 'precentral'
NamePrecentral == <<112, 114, 101, 99, 101, 110, 116, 114, 97, 108>>

\* 'UNKNOWN'
NameUnknownUpper == <<85, 78, 75, 78, 79, 87, 78>>

\* 'CorpusCallosum'
NameCorpusCallosumMixed ==
  <<67, 111, 114, 112, 117, 115, 67, 97, 108, 108, 111, 115, 117, 109>>

\* 'medial_wall'
NameMedialWallLower == <<109, 101, 100, 105, 97, 108, 95, 119, 97, 108, 108>>

EntryNames ==
  {NamePrecentral, NameUnknownLower, NameUnknownCap, NameUnknownUpper,
   NameCorpusCallosum, NameCorpusCallosumMixed, NameMedialWall,
   NameMedialWallLower}

\* Colour (232, 3, 0) has label code 1000, colour (7, 0, 0) label code 7.
EntryPool ==
  {Entry(1, n, 232, 3, 0) : n \in EntryNames}
  \cup {Entry(2, n, 7, 0, 0) :
          n \in {NamePrecentral, NameUnknownLower, NameUnknownUpper}}

\* n vertices 0..n-1, all labelled 1000.
PairsSame(n) == [i \in 1..n |-> <<i - 1, 1000>>]

\* n vertices 9, 8, ... labelled 7, 1000, 7, ...
PairsMixed(n) == [i \in 1..n |-> <<10 - i, IF i % 2 = 1 THEN 7 ELSE 1000>>]

PairLists ==
  {PairsSame(n) : n \in 0..MaxPairs} \cup {PairsMixed(n) : n \in 1..MaxPairs}

WellFormedAnnotationFiles ==
  {AnnotationFile(ps, 1, -2, es) :
     ps \in PairLists, es \in SeqsUpTo(EntryPool, MaxEntries)}

BaseAnnotationFiles ==
  {AnnotationFile(PairsMixed(2), 1, v,
                  <<Entry(1, NamePrecentral, 232, 3, 0),
                    Entry(2, NameUnknownLower, 7, 0, 0)>>) : v \in {-2, 2}}

\* Short names 'a', 'b', 'c', ...: entry k has colour (0, 0, k).
ShortEntries(n) == [k \in 1..n |-> Entry(k, <<96 + k>>, 0, 0, k)]

\* Colours inside and outside 0..255; (256, 0, 0) and (0, 1, 0) share a code.
ColourPool ==
  {<<1, 2, 3>>, <<3, 2, 1>>, <<0, 1, 0>>, <<0, 0, 1>>, <<255, 255, 255>>,
   <<256, 0, 0>>, <<-1, 0, 0>>}

ColourFiles ==
  {AnnotationFile(PairsSame(1), 1, -2,
                  <<Entry(1, <<97>>, c[1], c[2], c[3]),
                    Entry(2, <<98>>, d[1], d[2], d[3])>>) :
     c \in ColourPool, d \in ColourPool}

\* Entry index k (0-based) declares the name length `bad`.
BadNameFiles ==
  UNION {{[AnnotationFile(PairsMixed(2), 1, -2,
                          [ShortEntries(n) EXCEPT ![k + 1].nameLength = bad])
             EXCEPT !.numEntries = declared] :
            k \in 0..(n - 1), bad \in {-5, -1, 1001}, declared \in {n, 10}} :
         n \in 1..(MaxEntries + 2)}

\* Old-version tables (version field >= 0) whose version field differs from
\* the number of entries stored after the filename.
LegacyFiles ==
  {AnnotationFile(PairsSame(1), 1, v,
                  <<Entry(1, NamePrecentral, 232, 3, 0),
                    Entry(2, NameUnknownLower, 7, 0, 0)>>) : v \in {0, 1, 3}}

\* Names as some writers pad them: '', '\0', 'a\0b', '\0a' and 'a\0\0'.
PaddedNames == {<<>>, <<0>>, <<97, 0, 98>>, <<0, 97>>, <<97, 0, 0>>}

PaddedNameFiles ==
  {AnnotationFile(PairsSame(1), 1, -2,
                  <<Entry(1, n, 232, 3, 0), Entry(2, m, 7, 0, 0)>>) :
     n \in PaddedNames, m \in PaddedNames}

\* A file whose original filename has the largest accepted length.
LongFilenameFiles ==
  {[AnnotationFile(PairsSame(1), 1, -2, <<Entry(1, NamePrecentral, 232, 3, 0)>>)
      EXCEPT !.filenameLength = MaxFilenameLength,
             !.filename = [i \in 1..MaxFilenameLength |-> 102]]}

AnnotationInputs ==
  {Whole(f, AnnotationBytes(f)) : f \in WellFormedAnnotationFiles}
  \cup {[f EXCEPT !.cut = Len(VertexSectionBytes(f)) + extra] :
          f \in {AnnotationFile(ps, flag, -2, <<Entry(1, NamePrecentral, 232, 3, 0)>>) :
                   ps \in PairLists, flag \in {0, 2, -1}},
          extra \in {0, 4, 9}}
  \cup UNION {AllCuts(f, AnnotationBytes(f)) : f \in BaseAnnotationFiles}
  \cup {Whole([f EXCEPT !.numVertices = nv], AnnotationBytes(f)) :
          f \in BaseAnnotationFiles, nv \in {-1, 0, 1, 3, 10000000, 10000001}}
  \cup {Whole([f EXCEPT !.filenameLength = fl], AnnotationBytes(f)) :
          f \in BaseAnnotationFiles, fl \in {-1, 0, 2, 10000, 10001}}
  \cup {Whole([f EXCEPT !.numEntries = ne], AnnotationBytes(f)) :
          f \in BaseAnnotationFiles, ne \in {-1, 0, 1, 3, 10000, 10001}}
  \cup {Whole(f, AnnotationBytes(f)) : f \in BadNameFiles}
  \cup {Whole(f, AnnotationBytes(f)) : f \in ColourFiles}
  \cup {Whole(f, AnnotationBytes(f)) : f \in LegacyFiles}
  \cup {Whole(f, AnnotationBytes(f)) : f \in PaddedNameFiles}
  \cup {Whole(f, AnnotationBytes(f)) : f \in LongFilenameFiles}

\* The other hemisphere's file in a pair.
PartnerAnnotationFiles ==
  {AnnotationFile(PairsSame(3), 1, -2, <<Entry(1, NamePrecentral, 232, 3, 0)>>),
   AnnotationFile(PairsMixed(2), 1, 2,
                  <<Entry(1, NameUnknownUpper, 232, 3, 0),
                    Entry(2, NamePrecentral, 7, 0, 0)>>),
   AnnotationFile(PairsSame(2), 0, -2, <<>>)}

LabelInputs ==
  LET big   == {Whole(f, AnnotationBytes(f)) :
                  f \in {g \in WellFormedAnnotationFiles :
                           g.pairs \in {PairsSame(0), PairsSame(MaxPairs),
                                        PairsMixed(2), PairsMixed(MaxPairs)}}}
      small == {Whole(f, AnnotationBytes(f)) : f \in PartnerAnnotationFiles}
      cutOff == {[f EXCEPT !.cut = c] :
                   f \in {AnnotationFile(PairsSame(3), 1, -2, <<>>)},
                   c \in {3, 27, 30}}
  IN  (big \X small) \cup (small \X big) \cup (cutOff \X small)
        \cup (small \X cutOff)

(***************************************************************************)
(* The state machine: one call of one loader on fetched bytes.             *)
(* (A failed fetch never reaches a decoder and is not modelled.)           *)
(***************************************************************************)
NoFile == [cut |-> 0]

NoResult == [status |-> "none"]

(***************************************************************************)
(* The viewer                                                              *)
(*                                                                         *)
(* Opacities are in thousandths.  An actor is a positive number, in order  *)
(* of creation.  labelsData maps each label name to its hemisphere.        *)
(***************************************************************************)
MaxGeometryChanges == 2

MaxCameraAnimations == 2

Null == "null"

NoActor == 0

Hemispheres == {"lh", "rh"}

Geometries == {"pial", "inflated"}

Actors == 1..(2 + 2 * MaxGeometryChanges)

FullOpacity == 1000

OccludedOpacity == 200

HalfwayOpacity == 600

Opacities == {OccludedOpacity, HalfwayOpacity, FullOpacity}

OpacityTolerance == 1

\* The atlases of the atlas selector, as the label maps loadAnnotationLabels
\* returns for them.
DefaultAtlas == ("precentral-lh" :> "lh") @@ ("precentral-rh" :> "rh")

OtherAtlas == ("insula-lh" :> "lh")

Atlases == {DefaultAtlas, OtherAtlas}

Labels == UNION {DOMAIN a : a \in Atlases}

NoAnimation == [active |-> FALSE, target |-> 0]

NoTarget == 0

Abs(x) == IF x < 0 THEN -x ELSE x

\* An opacity animation acts on the actors' opacities, the opacityAnimations
\* map and the record of the latest targets: a scene.
Scene ==
  [opacity |-> actorOpacity, animations |-> opacityAnimations, last |-> lastTarget]

AtTarget(startOpacity, targetOpacity) ==
  Abs(startOpacity - targetOpacity) < OpacityTolerance

\* animateOpacity(actor, targetOpacity): nothing without an actor; nothing
\* when the opacity is already at the target; otherwise the actor's entry of
\* opacityAnimations is replaced by the new animation (the old frame is
\* cancelled).
animateOpacity(s, actor, targetOpacity) ==
  IF actor = NoActor THEN s
  ELSE IF AtTarget(s.opacity[actor], targetOpacity)
       THEN [s EXCEPT !.last[actor] = targetOpacity]
       ELSE [s EXCEPT !.last[actor] = targetOpacity,
                      !.animations[actor] = [active |-> TRUE, target |-> targetOpacity]]

OppositeTarget(isOccluding) == IF isOccluding THEN OccludedOpacity ELSE FullOpacity

\* adjustHemisphereOpacitySmooth: the target hemisphere goes to full opacity,
\* the opposite one to 0.2 when it occludes the label, else to full opacity.
adjustHemisphereOpacitySmooth(s, targetHemi, isOccluding) ==
  LET lhTarget == IF targetHemi = "lh" THEN FullOpacity ELSE OppositeTarget(isOccluding)
      rhTarget == IF targetHemi = "rh" THEN FullOpacity ELSE OppositeTarget(isOccluding)
  IN animateOpacity(animateOpacity(s, hemisphereData["lh"].actor, lhTarget),
                    hemisphereData["rh"].actor, rhTarget)

resetHemisphereOpacitySmooth(s, data) ==
  animateOpacity(animateOpacity(s, data["lh"].actor, FullOpacity),
                 data["rh"].actor, FullOpacity)

\* resetToDefaultColoring: the colouring is not part of the state; what is
\* left is the opacity reset.
resetToDefaultColoring(s, data) == resetHemisphereOpacitySmooth(s, data)

\* highlightLabel starts a camera animation unless the label is unknown or
\* its hemisphere has no mesh.  The animation's completion callback keeps the
\* hemisphere of the label.
Highlights(labelName, labels, data) ==
  /\ labelName \in DOMAIN labels
  /\ data[labels[labelName]].meshData # Null

highlightLabel(labelName, labels, data, pending) ==
  IF Highlights(labelName, labels, data)
  THEN [pending EXCEPT ![labels[labelName]] = @ + 1]
  ELSE pending

ListenerNeverSetUp(active) == FALSE

ListenerSetUp(active) == active

\* The listener registered by setupCameraInteractionListener.
occlusionListener(s, isOccluding) ==
  IF currentSelectedLabel = Null THEN s
  ELSE IF currentSelectedLabel \notin DOMAIN labelsData THEN s
  ELSE IF hemisphereData[labelsData[currentSelectedLabel]].meshData = Null THEN s
  ELSE adjustHemisphereOpacitySmooth(s, labelsData[currentSelectedLabel], isOccluding)

RECURSIVE RunListeners(_, _, _)
RunListeners(s, n, isOccluding) ==
  IF n = 0 THEN s ELSE RunListeners(occlusionListener(s, isOccluding), n - 1, isOccluding)

SameLabelNever(currentLabel, labelName) == FALSE

SameLabel(currentLabel, labelName) == currentLabel = labelName

PendingCameraAnimations == cameraAnimations["lh"] + cameraAnimations["rh"]

\* The viewer after initializeApp: both hemispheres of the default geometry
\* loaded and rendered at full opacity, the default atlas loaded, no label
\* selected, nothing animating.
ViewerStart ==
  /\ currentSelectedLabel = Null
  /\ labelsData = DefaultAtlas
  /\ currentGeometry = "pial"
  /\ hemisphereData = [h \in Hemispheres |->
                         [meshData |-> "pial", actor |-> IF h = "lh" THEN 1 ELSE 2]]
  /\ rendererActors = {1, 2}
  /\ actorOpacity = [a \in Actors |-> FullOpacity]
  /\ opacityAnimations = [a \in Actors |-> NoAnimation]
  /\ lastTarget = [a \in Actors |-> NoTarget]
  /\ cameraAnimations = [h \in Hemispheres |-> 0]
  /\ occlusionListenerActive = FALSE
  /\ animationListeners = 0
  /\ geometryLoads = <<>>
  /\ geometryChanges = 0
  /\ actorsCreated = 2

Init ==
  /\ pc = "start"
  /\ result = NoResult
  /\ ViewerStart
  /\ \/ /\ call = "surface"
        /\ file \in SurfaceInputs
        /\ buffer = Prefix(SurfaceBytes(file), file.cut)
        /\ rhFile = NoFile /\ rhBuffer = <<>>
     \/ /\ call = "curvature"
        /\ file \in CurvatureInputs
        /\ buffer = Prefix(CurvatureBytes(file), file.cut)
        /\ rhFile = NoFile /\ rhBuffer = <<>>
     \/ /\ call = "annotation"
        /\ file \in AnnotationInputs
        /\ buffer = Prefix(AnnotationBytes(file), file.cut)
        /\ rhFile = NoFile /\ rhBuffer = <<>>
     \/ /\ call = "labels"
        /\ \E p \in LabelInputs :
             /\ file = p[1]
             /\ rhFile = p[2]
             /\ buffer = Prefix(AnnotationBytes(p[1]), p[1].cut)
             /\ rhBuffer = Prefix(AnnotationBytes(p[2]), p[2].cut)

loadFreeSurferSurface ==
  /\ pc = "start" /\ call = "surface"
  /\ result' = parseFreeSurferSurface(buffer)
  /\ pc' = "done"
  /\ UNCHANGED <<call, file, buffer, rhFile, rhBuffer, viewerVars>>

loadFreeSurferCurvature ==
  /\ pc = "start" /\ call = "curvature"
  /\ result' = parseFreeSurferCurvature(buffer)
  /\ pc' = "done"
  /\ UNCHANGED <<call, file, buffer, rhFile, rhBuffer, viewerVars>>

loadFreeSurferAnnotation ==
  /\ pc = "start" /\ call = "annotation"
  /\ result' = parseFreeSurferAnnotation(buffer)
  /\ pc' = "done"
  /\ UNCHANGED <<call, file, buffer, rhFile, rhBuffer, viewerVars>>

LoadLabels ==
  /\ pc = "start" /\ call = "labels"
  /\ result' = loadAnnotationLabels(buffer, rhBuffer)
  /\ pc' = "done"
  /\ UNCHANGED <<call, file, buffer, rhFile, rhBuffer, viewerVars>>

Next ==
  \/ loadFreeSurferSurface
  \/ loadFreeSurferCurvature
  \/ loadFreeSurferAnnotation
  \/ LoadLabels

Spec == Init /\ [][Next]_vars

(***************************************************************************)
(* The viewer's handlers.  Each is one event-loop task: it runs to its end *)
(* or to its next await without interleaving.                              *)
(***************************************************************************)
ViewerInit ==
  /\ call = "none" /\ pc = "viewer" /\ result = NoResult
  /\ file = NoFile /\ buffer = <<>> /\ rhFile = NoFile /\ rhBuffer = <<>>
  /\ ViewerStart

SetScene(s) ==
  /\ actorOpacity' = s.opacity
  /\ opacityAnimations' = s.animations
  /\ lastTarget' = s.last

\* A click on a label of the list.
handleLabelClick(labelName) ==
  /\ labelName \in DOMAIN labelsData
  /\ IF SameLabel(currentSelectedLabel, labelName)
     THEN /\ currentSelectedLabel' = Null
          /\ SetScene(resetToDefaultColoring(Scene, hemisphereData))
          /\ UNCHANGED cameraAnimations
     ELSE /\ PendingCameraAnimations < MaxCameraAnimations
          /\ currentSelectedLabel' = labelName
          /\ cameraAnimations' =
               highlightLabel(labelName, labelsData, hemisphereData, cameraAnimations)
          /\ UNCHANGED <<actorOpacity, opacityAnimations, lastTarget>>
  /\ UNCHANGED <<labelsData, currentGeometry, hemisphereData, rendererActors,
                 occlusionListenerActive, animationListeners, geometryLoads,
                 geometryChanges, actorsCreated, decoderVars>>

\* A frame of a camera animation that has not reached its end.
CameraFrame(targetHemi) ==
  /\ cameraAnimations[targetHemi] > 0
  /\ UNCHANGED vars

\* The last frame of a camera animation: its completion callback sets up the
\* interaction listener and adjusts the opacities for its label's hemisphere.
CameraArrived(targetHemi) ==
  /\ cameraAnimations[targetHemi] > 0
  /\ cameraAnimations' = [cameraAnimations EXCEPT ![targetHemi] = @ - 1]
  /\ IF ListenerSetUp(occlusionListenerActive)
     THEN UNCHANGED <<occlusionListenerActive, animationListeners>>
     ELSE /\ occlusionListenerActive' = TRUE
          /\ animationListeners' = animationListeners + 1
  /\ \E isOccluding \in BOOLEAN :
       SetScene(adjustHemisphereOpacitySmooth(Scene, targetHemi, isOccluding))
  /\ UNCHANGED <<currentSelectedLabel, labelsData, currentGeometry, hemisphereData,
                 rendererActors, geometryLoads, geometryChanges, actorsCreated,
                 decoderVars>>

\* A frame of an opacity animation before its end: the opacity moves towards
\* the target without reaching it.
OpacityFrame(actor) ==
  /\ opacityAnimations[actor].active
  /\ \E v \in Opacities :
       /\ v # opacityAnimations[actor].target
       /\ Abs(v - opacityAnimations[actor].target)
            <= Abs(actorOpacity[actor] - opacityAnimations[actor].target)
       /\ actorOpacity' = [actorOpacity EXCEPT ![actor] = v]
  /\ UNCHANGED <<currentSelectedLabel, labelsData, currentGeometry, hemisphereData,
                 rendererActors, opacityAnimations, lastTarget, cameraAnimations,
                 occlusionListenerActive, animationListeners, geometryLoads,
                 geometryChanges, actorsCreated, decoderVars>>

\* The last frame of an opacity animation.
OpacityArrived(actor) ==
  /\ opacityAnimations[actor].active
  /\ actorOpacity' = [actorOpacity EXCEPT ![actor] = opacityAnimations[actor].target]
  /\ opacityAnimations' = [opacityAnimations EXCEPT ![actor] = NoAnimation]
  /\ UNCHANGED <<currentSelectedLabel, labelsData, currentGeometry, hemisphereData,
                 rendererActors, lastTarget, cameraAnimations,
                 occlusionListenerActive, animationListeners, geometryLoads,
                 geometryChanges, actorsCreated, decoderVars>>

\* An animation event of the interactor: every registered listener runs.
InteractorAnimation ==
  /\ animationListeners > 0
  /\ \E isOccluding \in BOOLEAN :
       SetScene(RunListeners(Scene, animationListeners, isOccluding))
  /\ UNCHANGED <<currentSelectedLabel, labelsData, currentGeometry, hemisphereData,
                 rendererActors, cameraAnimations, occlusionListenerActive,
                 animationListeners, geometryLoads, geometryChanges, actorsCreated,
                 decoderVars>>

\* handleGeometryChange up to its await: the selection is remembered, the
\* geometry recorded, the actors of the state removed from the renderer.
handleGeometryChange(newGeometry) ==
  /\ geometryChanges < MaxGeometryChanges
  /\ newGeometry # currentGeometry
  /\ geometryChanges' = geometryChanges + 1
  /\ currentGeometry' = newGeometry
  /\ rendererActors' =
       rendererActors \ {hemisphereData["lh"].actor, hemisphereData["rh"].actor}
  /\ geometryLoads' =
       Append(geometryLoads, [geometry |-> newGeometry,
                              selectedLabel |-> currentSelectedLabel,
                              hemi |-> "lh"])
  /\ UNCHANGED <<currentSelectedLabel, labelsData, hemisphereData, actorOpacity,
                 opacityAnimations, lastTarget, cameraAnimations,
                 occlusionListenerActive, animationListeners, actorsCreated,
                 decoderVars>>

RemoveAt(seq, i) == SubSeq(seq, 1, i - 1) \o SubSeq(seq, i + 1, Len(seq))

Loaded(data, hemi, geometry, actor) ==
  [data EXCEPT ![hemi] = [meshData |-> geometry, actor |-> actor]]

\* An actor that the state no longer records is out of every handler's reach:
\* its opacity and its animation are followed no further.
Replaced(s, actor) ==
  [s EXCEPT !.opacity[actor] = FullOpacity,
            !.animations[actor] = NoAnimation,
            !.last[actor] = NoTarget]

\* loadHemisphere('lh') of the i-th load in flight resolves: a new actor is
\* added to the renderer and recorded in the state.
LeftHemisphereLoaded(i) ==
  /\ i \in 1..Len(geometryLoads)
  /\ geometryLoads[i].hemi = "lh"
  /\ actorsCreated' = actorsCreated + 1
  /\ rendererActors' = rendererActors \cup {actorsCreated + 1}
  /\ hemisphereData' =
       Loaded(hemisphereData, "lh", geometryLoads[i].geometry, actorsCreated + 1)
  /\ geometryLoads' = [geometryLoads EXCEPT ![i].hemi = "rh"]
  /\ SetScene(Replaced(Scene, hemisphereData["lh"].actor))
  /\ UNCHANGED <<currentSelectedLabel, labelsData, currentGeometry, cameraAnimations,
                 occlusionListenerActive, animationListeners, geometryChanges,
                 decoderVars>>

\* loadHemisphere('rh') of the i-th load in flight resolves, and
\* handleGeometryChange goes on after its await: the remembered label is
\* highlighted again, or the colouring is reset.
RightHemisphereLoaded(i) ==
  /\ i \in 1..Len(geometryLoads)
  /\ geometryLoads[i].hemi = "rh"
  /\ actorsCreated' = actorsCreated + 1
  /\ rendererActors' = rendererActors \cup {actorsCreated + 1}
  /\ hemisphereData' =
       Loaded(hemisphereData, "rh", geometryLoads[i].geometry, actorsCreated + 1)
  /\ geometryLoads' = RemoveAt(geometryLoads, i)
  /\ IF geometryLoads[i].selectedLabel # Null
     THEN /\ cameraAnimations' =
               highlightLabel(geometryLoads[i].selectedLabel, labelsData,
                              hemisphereData', cameraAnimations)
          /\ SetScene(Replaced(Scene, hemisphereData["rh"].actor))
     ELSE /\ SetScene(resetToDefaultColoring(
                        Replaced(Scene, hemisphereData["rh"].actor), hemisphereData'))
          /\ UNCHANGED cameraAnimations
  /\ UNCHANGED <<currentSelectedLabel, labelsData, currentGeometry,
                 occlusionListenerActive, animationListeners, geometryChanges,
                 decoderVars>>

\* handleAtlasChange after its awaits: the new labels are recorded and the
\* colouring is reset.  The selection is left as it is.
handleAtlasChange(atlas) ==
  /\ atlas # labelsData
  /\ labelsData' = atlas
  /\ SetScene(resetToDefaultColoring(Scene, hemisphereData))
  /\ UNCHANGED <<currentSelectedLabel, currentGeometry, hemisphereData,
                 rendererActors, cameraAnimations, occlusionListenerActive,
                 animationListeners, geometryLoads, geometryChanges, actorsCreated,
                 decoderVars>>

ViewerNext ==
  \/ \E labelName \in Labels : handleLabelClick(labelName)
  \/ \E targetHemi \in Hemispheres : CameraFrame(targetHemi)
  \/ \E targetHemi \in Hemispheres : CameraArrived(targetHemi)
  \/ \E actor \in Actors : OpacityFrame(actor)
  \/ \E actor \in Actors : OpacityArrived(actor)
  \/ InteractorAnimation
  \/ \E newGeometry \in Geometries : handleGeometryChange(newGeometry)
  \/ \E i \in 1..MaxGeometryChanges : LeftHemisphereLoaded(i)
  \/ \E i \in 1..MaxGeometryChanges : RightHemisphereLoaded(i)
  \/ \E atlas \in Atlases : handleAtlasChange(atlas)

ViewerSpec == ViewerInit /\ [][ViewerNext]_vars

(***************************************************************************)
(* Properties                                                              *)
(***************************************************************************)
Done(c) == pc = "done" /\ call = c

\* The error kinds of the design, by throw statement.  A RangeError raised
\* by DataView or by a typed-array constructor is a raw out-of-bounds failure.
ErrorKind(status) ==
  CASE status = "InvalidMagic" -> "InvalidMagic"
    [] status = "InvalidNumVertices" -> "InvalidHeader"
    [] status \in {"VertexOverflow", "NotEnoughData"} -> "TruncatedData"
    [] status \in {"InvalidFilenameLength", "InvalidNumTableEntries"} -> "HeaderSanity"
    [] status = "RangeError" -> "OutOfBounds"
    [] status = "ok" -> "ok"

NoAdjacentNewlines(s) == \A i \in 1..(Len(s) - 1) : ~(s[i] = 10 /\ s[i + 1] = 10)

\* Magic FF FF FE, a comment closed by its first two consecutive newlines,
\* non-negative counts, and a body of exactly the declared size.
ValidSurface(f) ==
  /\ f.magic = SurfaceMagic
  /\ f.term = <<10, 10>>
  /\ NoAdjacentNewlines(f.comment \o <<10>>)
  /\ f.numVertices = Len(f.vertices)
  /\ f.numFaces = Len(f.faces)
  /\ f.cut = Len(SurfaceBytes(f))

\* C1: decoding a valid surface buffer succeeds with exactly numVertices
\* vertices and numFaces triangles, the ones stored, in file order.
C1_ValidSurfaceCounts ==
  (Done("surface") /\ ValidSurface(file)) =>
    /\ result.status = "ok"
    /\ Len(result.vertices) = file.numVertices
    /\ Len(result.triangles) = file.numFaces
    /\ result.vertices = file.vertices
    /\ result.triangles = file.faces

C1_Witness ==
  /\ Done("surface") /\ ValidSurface(file)
  /\ file.numVertices = 2 /\ file.numFaces = 2
  /\ file.comment = <<99, 10, 100>>
  /\ file.vertices[1] # file.vertices[2]
  /\ result.status = "ok"

StartsWith(buf, magic) == Len(buf) >= 3 /\ SubSeq(buf, 1, 3) = magic

\* C2: a surface buffer of any length (also under 3 bytes) that does not
\* start with FF FF FE fails with InvalidMagic, and so does a curvature
\* buffer that does not start with FF FF FF.
C2_BadMagicIsInvalidMagic ==
  /\ (Done("surface") /\ ~StartsWith(buffer, SurfaceMagic)) =>
        ErrorKind(result.status) = "InvalidMagic"
  /\ (Done("curvature") /\ ~StartsWith(buffer, CurvatureMagic)) =>
        ErrorKind(result.status) = "InvalidMagic"

\* The bytes before the first curvature value.
CurvatureHeaderSize == 15

\* C3: with valid magic and a header declaring n vertices, a body of only
\* k < n floats fails with TruncatedData, and a body of exactly n floats
\* succeeds with n values.
C3_CurvatureTruncation ==
  (/\ Done("curvature")
   /\ StartsWith(buffer, CurvatureMagic)
   /\ file.cut >= CurvatureHeaderSize
   /\ file.numVertices >= 0) =>
    LET k == (file.cut - CurvatureHeaderSize) \div 4 IN
    /\ (k < file.numVertices /\ file.cut = CurvatureHeaderSize + 4 * k) =>
          ErrorKind(result.status) = "TruncatedData"
    /\ file.cut = CurvatureHeaderSize + 4 * file.numVertices =>
          /\ result.status = "ok"
          /\ Len(result.curvature) = file.numVertices

PairIndices(f) == [i \in 1..Len(f.pairs) |-> f.pairs[i][1]]

PairLabels(f) == [i \in 1..Len(f.pairs) |-> f.pairs[i][2]]

\* All declared pairs lie inside the buffer.
VertexSectionComplete(f) ==
  /\ f.numVertices = Len(f.pairs)
  /\ f.cut >= Len(VertexSectionBytes(f))

\* C4: an annotation buffer with a complete vertex section and a
\* hasColorTable flag of 0 decodes to colorTable null and all the pairs.
C4_FlagZeroNoTable ==
  (/\ Done("annotation")
   /\ VertexSectionComplete(file)
   /\ file.cut >= Len(VertexSectionBytes(file)) + 4
   /\ file.flag = 0) =>
    /\ result.status = "ok"
    /\ result.colorTable.isNull
    /\ result.numVertices = file.numVertices
    /\ result.vertexIndices = PairIndices(file)
    /\ result.vertexLabels = PairLabels(file)

C4_Witness ==
  /\ Done("annotation")
  /\ VertexSectionComplete(file)
  /\ file.cut > Len(VertexSectionBytes(file)) + 4
  /\ file.flag = 0
  /\ file.numVertices = 3
  /\ result.status = "ok" /\ result.colorTable.isNull

InByteRange(e) == e.r \in 0..255 /\ e.g \in 0..255 /\ e.b \in 0..255

\* C5: every returned colour-table entry has label = r + g*256 + b*65536 of
\* its own stored r, g, b (the value loadAnnotationLabels compares with the
\* vertex labels); entries with distinct colours within 0..255 have
\* distinct labels.
C5_LabelCode ==
  (Done("annotation") /\ result.status = "ok" /\ ~result.colorTable.isNull) =>
    LET es == result.colorTable.entries IN
    /\ \A i \in 1..Len(es) :
         es[i].label = es[i].r + es[i].g * 256 + es[i].b * 65536
    /\ \A i, j \in 1..Len(es) :
         (InByteRange(es[i]) /\ InByteRange(es[j])
            /\ <<es[i].r, es[i].g, es[i].b>> # <<es[j].r, es[j].g, es[j].b>>)
           => es[i].label # es[j].label

C5_Witness ==
  /\ Done("annotation") /\ result.status = "ok"
  /\ Len(result.colorTable.entries) = 2
  /\ LET es == result.colorTable.entries IN
       /\ <<es[1].r, es[1].g, es[1].b>> = <<1, 2, 3>>
       /\ <<es[2].r, es[2].g, es[2].b>> = <<3, 2, 1>>
       /\ es[1].label = 197121

Lower(c) == IF c \in 65..90 THEN c + 32 ELSE c

LowerName(name) == [i \in 1..Len(name) |-> Lower(name[i])]

\* 'unknown', 'corpuscallosum' or 'medial_wall' in any letter case.
IsFilteredAnyCase(name) ==
  LowerName(name) \in {LowerName(NameUnknownLower),
                       LowerName(NameCorpusCallosum),
                       LowerName(NameMedialWall)}

\* '<name>-<hemi>'
RegionKey(name, hemi) ==
  name \o (IF hemi = "lh" THEN <<45, 108, 104>> ELSE <<45, 114, 104>>)

KeyName(key) == SubSeq(key, 1, Len(key) - 3)

Hemis == {"lh", "rh"}

\* The annotation result loadAnnotationLabels works from, per hemisphere.
Annot(hemi) ==
  parseFreeSurferAnnotation(IF hemi = "lh" THEN buffer ELSE rhBuffer)

EntriesOf(a) == IF a.colorTable.isNull THEN <<>> ELSE a.colorTable.entries

MatchPositions(a, e) ==
  {i \in 1..Len(a.vertexLabels) : a.vertexLabels[i] = e.label}

Matched(a, e) == MatchPositions(a, e) # {}

\* vertexIndices at the matching positions, by increasing position.
MatchedVertices(a, e) ==
  LET ps == MatchPositions(a, e) IN
  [k \in 1..Cardinality(ps) |->
     a.vertexIndices[CHOOSE i \in ps : Cardinality({j \in ps : j < i}) = k - 1]]

LabelsDone == Done("labels") /\ result.status = "ok"

\* C6: the map returned by loadAnnotationLabels has no region built from an
\* entry named 'unknown', 'corpuscallosum' or 'Medial_wall' in any letter
\* case, whatever the number of vertices carrying its code.
C6_NoFilteredRegionAnyCase ==
  LabelsDone =>
    \A key \in DOMAIN result.labels : ~IsFilteredAnyCase(KeyName(key))

\* C7: every region of the output has at least one vertex, and a key is
\* present only if some entry of that name in that hemisphere's table is
\* matched by a vertex: an unmatched entry produces no key.
C7_NoEmptyRegion ==
  LabelsDone =>
    /\ \A key \in DOMAIN result.labels : Len(result.labels[key].vertices) > 0
    /\ \A h \in Hemis :
         LET a == Annot(h) es == EntriesOf(Annot(h)) IN
         \A i \in 1..Len(es) :
           (/\ ~Matched(a, es[i])
            /\ ~\E j \in 1..Len(es) :
                  j # i /\ es[j].name = es[i].name /\ Matched(a, es[j]))
             => RegionKey(es[i].name, h) \notin DOMAIN result.labels

C7_Witness ==
  /\ LabelsDone
  /\ DOMAIN result.labels # {}
  /\ \E h \in Hemis :
       LET a == Annot(h) es == EntriesOf(Annot(h)) IN
       \E i \in 1..Len(es) :
         /\ ~IsSkippedName(es[i].name)
         /\ ~Matched(a, es[i])
         /\ Len(a.vertexLabels) > 0
         /\ RegionKey(es[i].name, h) \notin DOMAIN result.labels

\* The region the claim expects for entry e of hemisphere h.
RegionIs(h, a, e) ==
  /\ RegionKey(e.name, h) \in DOMAIN result.labels
  /\ LET region == result.labels[RegionKey(e.name, h)] IN
       /\ region.hemi = h
       /\ region.color = <<e.r, e.g, e.b>>
       /\ region.vertices = MatchedVertices(a, e)

\* C8 as stated: every entry that is not filtered and is matched by a vertex
\* has its own region under '<name>-<hemi>': that hemisphere, its colour, and
\* exactly the vertexIndices of the matching positions in increasing order.
C8_EveryMatchedEntryHasItsRegion ==
  LabelsDone =>
    \A h \in Hemis :
      LET a == Annot(h) es == EntriesOf(Annot(h)) IN
      \A i \in 1..Len(es) :
        (~IsFilteredAnyCase(es[i].name) /\ Matched(a, es[i]))
          => RegionIs(h, a, es[i])

\* A later entry of the same table that writes the same key.
Overwritten(a, es, i) ==
  \E j \in (i + 1)..Len(es) :
    es[j].name = es[i].name /\ Matched(a, es[j])

\* C8 amended: the same, for every entry the loop does not skip that is
\* matched by a vertex and is the last matched entry of its name in its
\* hemisphere's table (a later one of that name replaces the region).
C8_LastMatchedEntryHasItsRegion ==
  LabelsDone =>
    \A h \in Hemis :
      LET a == Annot(h) es == EntriesOf(Annot(h)) IN
      \A i \in 1..Len(es) :
        (/\ ~IsSkippedName(es[i].name)
         /\ Matched(a, es[i])
         /\ ~Overwritten(a, es, i))
          => RegionIs(h, a, es[i])

C8_Witness ==
  /\ LabelsDone
  /\ LET a == Annot("lh") es == EntriesOf(Annot("lh")) IN
       /\ Len(es) = 2
       /\ es[1].name = es[2].name
       /\ es[1].label # es[2].label
       /\ Matched(a, es[1]) /\ Matched(a, es[2])
       /\ ~IsSkippedName(es[2].name)
       /\ RegionIs("lh", a, es[2])
       /\ result.labels[RegionKey(es[2].name, "lh")].vertices = <<8>>

BadNameLength(e) == e.nameLength < 0 \/ e.nameLength > 1000

\* A whole file with a sound header whose first bad name length is at an
\* entry the table declares.
BadNameCase(f) ==
  /\ VertexSectionComplete(f)
  /\ f.cut = Len(AnnotationBytes(f))
  /\ f.flag = 1
  /\ f.filenameLength = Len(f.filename)
  /\ f.numEntries \in 0..10000
  /\ \E k \in 1..Len(f.entries) :
       /\ BadNameLength(f.entries[k])
       /\ k <= f.numEntries
       /\ \A j \in 1..(k - 1) : f.entries[j].nameLength = Len(f.entries[j].name)

\* 1-based position of the first entry with a bad name length.
FirstBad(f) ==
  CHOOSE k \in 1..Len(f.entries) :
    /\ BadNameLength(f.entries[k])
    /\ \A j \in 1..(k - 1) : ~BadNameLength(f.entries[j])

\* The same file with every name length set to the length of its name.
WellFormedTwin(f) ==
  [f EXCEPT !.entries =
     [k \in 1..Len(f.entries) |->
        [f.entries[k] EXCEPT !.nameLength = Len(f.entries[k].name)]]]

\* C9: if entry index k is the first with a name length below 0 or above
\* 1000, decoding succeeds with exactly the k entries before it, in order,
\* and with the vertex arrays of the same file with a well-formed table.
C9_BadNameLengthStopsTable ==
  (Done("annotation") /\ BadNameCase(file)) =>
    LET k == FirstBad(file) - 1
        twin == parseFreeSurferAnnotation(AnnotationBytes(WellFormedTwin(file)))
    IN  /\ result.status = "ok"
        /\ ~result.colorTable.isNull
        /\ Len(result.colorTable.entries) = k
        /\ \A j \in 1..k :
             LET e == result.colorTable.entries[j] d == file.entries[j] IN
             /\ e.structure = d.structure /\ e.name = d.name
             /\ e.r = d.r /\ e.g = d.g /\ e.b = d.b /\ e.a = d.a
        /\ twin.status = "ok"
        /\ result.vertexIndices = twin.vertexIndices
        /\ result.vertexLabels = twin.vertexLabels
        /\ result.vertexIndices = PairIndices(file)
        /\ result.vertexLabels = PairLabels(file)

C9_Witness ==
  /\ Done("annotation") /\ BadNameCase(file)
  /\ FirstBad(file) = 4
  /\ file.numEntries = 10
  /\ file.entries[4].nameLength = -5
  /\ result.status = "ok"
  /\ Len(result.colorTable.entries) = 3

\* C10: with a vertex count field present, decoding fails with InvalidHeader
\* exactly when that count is below 0 or above 10,000,000; counts of 0 and of
\* 10,000,000 get past the header check.
C10_InvalidHeaderIffCountOutOfRange ==
  (Done("annotation") /\ file.cut >= 4) =>
    /\ ErrorKind(result.status) = "InvalidHeader"
         <=> (file.numVertices < 0 \/ file.numVertices > 10000000)
    /\ file.numVertices \in {0, 10000000} => result.status # "InvalidNumVertices"

C10_Witness ==
  /\ Done("annotation")
  /\ file.numVertices = 10000000
  /\ result.status = "VertexOverflow" /\ result.at > 0

\* The count field is present and accepted, and the buffer stops short of
\* the last declared pair.
PairsCutShort(f) ==
  /\ f.cut >= 4
  /\ f.numVertices \in 0..10000000
  /\ f.cut < 4 + 8 * f.numVertices

\* C11: when the buffer ends before all numVertices pairs are present,
\* decoding fails with TruncatedData naming the index of the first pair
\* that does not fit, and the failure carries no vertex data.
C11_TruncatedPairsNameFirstMissing ==
  (Done("annotation") /\ PairsCutShort(file)) =>
    LET i == (file.cut - 4) \div 8 IN
    /\ ErrorKind(result.status) = "TruncatedData"
    /\ result.status = "VertexOverflow"
    /\ result.at = i
    /\ 4 + 8 * i <= file.cut /\ file.cut < 4 + 8 * (i + 1)
    /\ DOMAIN result = {"status", "at"}

C11_Witness ==
  /\ Done("annotation") /\ PairsCutShort(file)
  /\ file.numVertices = 2
  /\ file.cut = 15
  /\ result.status = "VertexOverflow" /\ result.at = 1

\* C12: when the buffer ends exactly after the last declared pair, decoding
\* succeeds with colorTable null and all numVertices pairs.
C12_EndAfterPairsIsNoTable ==
  (/\ Done("annotation")
   /\ VertexSectionComplete(file)
   /\ file.cut = Len(VertexSectionBytes(file))) =>
    /\ result.status = "ok"
    /\ result.colorTable.isNull
    /\ result.numVertices = file.numVertices
    /\ Len(result.vertexIndices) = file.numVertices
    /\ result.vertexIndices = PairIndices(file)
    /\ result.vertexLabels = PairLabels(file)

C12_Witness ==
  /\ Done("annotation")
  /\ VertexSectionComplete(file)
  /\ file.cut = Len(VertexSectionBytes(file))
  /\ file.numVertices = 3
  /\ file.pairs = PairsMixed(3)
  /\ result.status = "ok" /\ result.colorTable.isNull
  /\ result.vertexLabels = <<7, 1000, 7>>

\* A whole file with hasColorTable 1, a true filename length, an entry
\* count within the ceiling and true name lengths.
SoundTable(f) ==
  /\ VertexSectionComplete(f)
  /\ f.cut = Len(AnnotationBytes(f))
  /\ f.flag = 1
  /\ f.filenameLength = Len(f.filename)
  /\ f.numEntries \in 0..10000
  /\ \A k \in 1..Len(f.entries) : f.entries[k].nameLength = Len(f.entries[k].name)

\* C13: with hasColorTable 1, a non-negative version-or-count field is itself
\* the number of entries the decoder attempts; a negative one makes it skip
\* one further int32 and take the count from the int32 after the filename.
C13_EntryCountField ==
  (Done("annotation") /\ SoundTable(file)) =>
    /\ result.status = "ok"
    /\ ~result.colorTable.isNull
    /\ file.version >= 0 => result.colorTable.numEntries = file.version
    /\ file.version < 0 => result.colorTable.numEntries = file.numEntries

\* Number of bytes up to and including the two count fields.
SurfaceHeaderSize(f) == 3 + Len(f.comment) + Len(f.term) + 8

\* Magic FF FF FE, a comment closed by its first two consecutive newlines,
\* and both count fields inside the buffer.
CountsPresent(f) ==
  /\ f.magic = SurfaceMagic
  /\ f.term = <<10, 10>>
  /\ NoAdjacentNewlines(f.comment \o <<10>>)
  /\ f.cut >= SurfaceHeaderSize(f)

\* A count is negative, or the declared body is larger than what is left.
CountsImpossible(f) ==
  \/ f.numVertices < 0
  \/ f.numFaces < 0
  \/ 12 * f.numVertices + 12 * f.numFaces > f.cut - SurfaceHeaderSize(f)

\* C14: a surface buffer whose declared vertex or face count is negative, or
\* whose counts need more bytes than remain after the count fields, fails
\* with TruncatedData and returns no mesh.
C14_ImpossibleCountsAreTruncatedData ==
  (Done("surface") /\ CountsPresent(file) /\ CountsImpossible(file)) =>
    ErrorKind(result.status) = "TruncatedData"

\* C15: every result the surface decoder returns has as many vertices as
\* numVertices and as many triangles as numFaces.
C15_ReturnedCountsMatchLengths ==
  (Done("surface") /\ result.status = "ok") =>
    /\ Len(result.vertices) = result.numVertices
    /\ Len(result.triangles) = result.numFaces

\* Offsets (0-based, after the magic) at which two consecutive 0x0A bytes lie
\* inside the buffer.
TerminatorOffsets(buf) ==
  {p \in 3..(Len(buf) - 2) : buf[p + 1] = 10 /\ buf[p + 2] = 10}

FirstTerminator(buf) ==
  CHOOSE p \in TerminatorOffsets(buf) : \A q \in TerminatorOffsets(buf) : p <= q

\* C16: reading the surface comment never fails.  Without two consecutive
\* 0x0A bytes in the buffer (a single 0x0A as last byte included) the comment
\* is every byte after the magic and the cursor is at the end of the buffer;
\* with them the comment is every byte before the first such pair and the
\* cursor is just after its second byte.
C16_CommentReadNeverFails ==
  (Done("surface") /\ StartsWith(buffer, SurfaceMagic)) =>
    LET c == ReadComment(buffer, 3, <<>>) IN
    /\ c.ok
    /\ IF TerminatorOffsets(buffer) = {}
       THEN /\ c.comment = SubSeq(buffer, 4, Len(buffer))
            /\ c.offset = Len(buffer)
       ELSE /\ c.comment = SubSeq(buffer, 4, FirstTerminator(buffer))
            /\ c.offset = FirstTerminator(buffer) + 2

\* Some index of the triangle is below 0 or not below the vertex count.
IndexOutOfRange(t, numVertices) ==
  \E c \in 1..3 : t[c] < 0 \/ t[c] >= numVertices

\* C17: a valid surface buffer decodes to its triangles with the three
\* indices of each exactly as stored and in stored order, also when an index
\* is negative or not below numVertices.
C17_TrianglesVerbatim ==
  (Done("surface") /\ ValidSurface(file)) =>
    /\ result.status = "ok"
    /\ Len(result.triangles) = Len(file.faces)
    /\ \A i \in 1..Len(file.faces) :
         \A c \in 1..3 : result.triangles[i][c] = file.faces[i][c]

C17_Witness ==
  /\ Done("surface") /\ ValidSurface(file)
  /\ file.numVertices = 1
  /\ file.faces = <<<<0, 1, 2>>, <<2, -1, 7>>>>
  /\ \A i \in 1..2 : IndexOutOfRange(file.faces[i], file.numVertices)
  /\ result.status = "ok"
  /\ result.triangles[2] = <<2, -1, 7>>

\* Number of bytes up to and including the entry-count field.
TableHeaderSize(f) == Len(AnnotationBytes(f)) - Len(EncEntries(f.entries))

\* A file whose entry count has been read and accepted: as SoundTable, but
\* cut anywhere at or after the entry-count field.
CountAccepted(f) ==
  /\ VertexSectionComplete(f)
  /\ f.cut >= TableHeaderSize(f)
  /\ f.flag = 1
  /\ f.filenameLength = Len(f.filename)
  /\ f.numEntries \in 0..10000
  /\ \A k \in 1..Len(f.entries) : f.entries[k].nameLength = Len(f.entries[k].name)

\* The first j stored entries lie wholly inside the buffer.
EntriesFit(f, j) ==
  TableHeaderSize(f) + Len(EncEntries(SubSeq(f.entries, 1, j))) <= f.cut

\* How many declared entries lie wholly inside the buffer.
CompleteEntries(f) ==
  LET fit == {j \in 0..Len(f.entries) : j <= f.numEntries /\ EntriesFit(f, j)}
  IN  CHOOSE j \in fit : \A m \in fit : m <= j

NonZeroBytes(name) == SelectSeq(name, LAMBDA c : c > 0)

\* Result entry e is stored entry d.
DecodedAs(e, d) ==
  /\ e.structure = d.structure /\ e.name = NonZeroBytes(d.name)
  /\ e.r = d.r /\ e.g = d.g /\ e.b = d.b /\ e.a = d.a

\* C18: once the entry count is accepted, decoding succeeds wherever the
\* buffer ends: the colour table holds exactly the entries that lie wholly
\* inside the buffer (entries 0..k-1 when the buffer ends inside entry k),
\* and the vertex arrays are complete.
C18_TableStopsAtLastCompleteEntry ==
  (Done("annotation") /\ CountAccepted(file)) =>
    LET k == CompleteEntries(file) IN
    /\ result.status = "ok"
    /\ ~result.colorTable.isNull
    /\ Len(result.colorTable.entries) = k
    /\ \A j \in 1..k : DecodedAs(result.colorTable.entries[j], file.entries[j])
    /\ result.vertexIndices = PairIndices(file)
    /\ result.vertexLabels = PairLabels(file)

\* The buffer ends inside the name bytes of the second entry.
C18_Witness ==
  /\ Done("annotation") /\ CountAccepted(file)
  /\ file.numEntries = 2
  /\ LET start == TableHeaderSize(file) + Len(EncEntry(file.entries[1])) IN
     /\ file.cut > start + 8
     /\ file.cut < start + 8 + file.entries[2].nameLength
  /\ result.status = "ok"
  /\ Len(result.colorTable.entries) = 1
  /\ Len(result.vertexIndices) = 2

\* Offset of the first name byte of stored entry j (1-based).
NameOffset(f, j) ==
  TableHeaderSize(f) + Len(EncEntries(SubSeq(f.entries, 1, j - 1))) + 8

\* C19: for an entry whose name of declared length L (0..1000) lies wholly
\* inside the buffer, the decoded name is the non-zero name bytes in order,
\* the name loop leaves the cursor exactly L bytes further, and the colour
\* fields are the ones stored after the L bytes.
C19_NameSkipsZeroBytes ==
  (Done("annotation") /\ SoundTable(file)) =>
    /\ result.status = "ok"
    /\ \A j \in 1..Len(file.entries) :
         j <= file.numEntries =>
           LET d  == file.entries[j]
               e  == result.colorTable.entries[j]
               nm == ReadName(buffer, NameOffset(file, j), 0, d.nameLength, <<>>)
           IN  /\ d.nameLength \in 0..1000
               /\ nm.offset = NameOffset(file, j) + d.nameLength
               /\ nm.name = NonZeroBytes(d.name)
               /\ e.name = nm.name
               /\ e.r = d.r /\ e.g = d.g /\ e.b = d.b /\ e.a = d.a

C19_Witness ==
  /\ Done("annotation") /\ SoundTable(file)
  /\ file.numEntries = 2
  /\ file.entries[1].name = <<97, 0, 98>>
  /\ file.entries[2].name = <<0, 97>>
  /\ result.status = "ok"
  /\ result.colorTable.entries[1].name = <<97, 98>>
  /\ result.colorTable.entries[1].r = 232
  /\ result.colorTable.entries[2].name = <<97>>
  /\ result.colorTable.entries[2].r = 7

\* The entries of hemisphere h that the loop does not skip and that are
\* matched by a vertex, by position in the table.
WritingEntries(h) ==
  LET a == Annot(h) es == EntriesOf(Annot(h)) IN
  {i \in 1..Len(es) : ~IsSkippedName(es[i].name) /\ Matched(a, es[i])}

\* All of them, over both hemispheres.
AllWritingEntries ==
  {<<"lh", i>> : i \in WritingEntries("lh")}
    \cup {<<"rh", i>> : i \in WritingEntries("rh")}

\* Their (hemisphere, name) pairs.
WrittenNames ==
  {<<p[1], EntriesOf(Annot(p[1]))[p[2]].name>> : p \in AllWritingEntries}

\* C21 as stated: no matched, non-skipped entry is overwritten by another,
\* so the map has as many regions as there are such entries on both sides.
C21_OneRegionPerMatchedEntry ==
  LabelsDone => Cardinality(DOMAIN result.labels) = Cardinality(AllWritingEntries)

\* C21 amended: no entry is overwritten by one of the other hemisphere, and
\* the map has as many regions as there are distinct (hemisphere, name)
\* pairs among the matched, non-skipped entries; each region is keyed
\* '<name>-<hemi>' for its own hemisphere.
C21_OneRegionPerHemisphereAndName ==
  LabelsDone =>
    /\ Cardinality(DOMAIN result.labels) = Cardinality(WrittenNames)
    /\ DOMAIN result.labels = {RegionKey(p[2], p[1]) : p \in WrittenNames}
    /\ \A p \in WrittenNames : result.labels[RegionKey(p[2], p[1])].hemi = p[1]

\* Both hemispheres have a matched 'precentral'; each keeps its own region.
C21_Witness ==
  /\ LabelsDone
  /\ <<"lh", NamePrecentral>> \in WrittenNames
  /\ <<"rh", NamePrecentral>> \in WrittenNames
  /\ result.labels[RegionKey(NamePrecentral, "lh")].hemi = "lh"
  /\ result.labels[RegionKey(NamePrecentral, "rh")].hemi = "rh"
  /\ result.labels[RegionKey(NamePrecentral, "lh")].vertices
       # result.labels[RegionKey(NamePrecentral, "rh")].vertices

\* A whole file with a complete vertex section and hasColorTable 1.
WholeWithTable(f) ==
  /\ VertexSectionComplete(f)
  /\ f.cut = Len(AnnotationBytes(f))
  /\ f.flag = 1

\* The failure carries neither vertex labels nor a table.
Rejected(r, site) ==
  /\ r.status = site
  /\ ErrorKind(r.status) = "HeaderSanity"
  /\ DOMAIN r = {"status", "at"}

\* C22: with hasColorTable 1 the decoder rejects the file when the filename
\* length is outside 0..10,000 or the table-entry count is outside
\* 0..10,000; a filename length or an entry count of exactly 10,000 passes.
C22_TableHeaderSanity ==
  (Done("annotation") /\ WholeWithTable(file)) =>
    /\ (file.filenameLength < 0 \/ file.filenameLength > 10000)
         <=> Rejected(result, "InvalidFilenameLength")
    /\ file.filenameLength = Len(file.filename) =>
         /\ (file.numEntries < 0 \/ file.numEntries > 10000)
              <=> Rejected(result, "InvalidNumTableEntries")
         /\ file.numEntries \in 0..10000 => result.status = "ok"

\* A 10,000-byte filename is skipped and the table behind it is decoded.
C22_Witness ==
  /\ Done("annotation") /\ WholeWithTable(file)
  /\ file.filenameLength = 10000
  /\ Len(file.filename) = 10000
  /\ result.status = "ok"
  /\ Len(result.colorTable.entries) = 1

C22_WitnessCount ==
  /\ Done("annotation") /\ WholeWithTable(file)
  /\ file.numEntries = 10000
  /\ result.status = "ok"
  /\ result.colorTable.numEntries = 10000

\* C23: every annotation buffer either decodes or fails with a deliberate
\* decode error (InvalidHeader, TruncatedData or a header sanity error),
\* never with a raw out-of-bounds read.
C23_NoRawOutOfBounds ==
  Done("annotation") =>
    ErrorKind(result.status) \in {"ok", "InvalidHeader", "TruncatedData", "HeaderSanity"}

\* Valid magic, a count the body covers, and the whole body in the buffer.
CompleteCurvature(f) ==
  /\ f.magic = CurvatureMagic
  /\ f.numVertices \in 0..Len(f.values)
  /\ f.cut >= CurvatureHeaderSize + 4 * f.numVertices

\* C24: a curvature buffer with valid magic and a complete body decodes to
\* exactly numVertices values, the i-th being the i-th float after the
\* 15-byte header, whatever the face-count and values-per-vertex fields hold.
C24_CurvatureIgnoresOtherFields ==
  (Done("curvature") /\ CompleteCurvature(file)) =>
    LET plain == [file EXCEPT !.numFaces = 0, !.valuesPerVertex = 1] IN
    /\ result.status = "ok"
    /\ Len(result.curvature) = file.numVertices
    /\ \A i \in 1..file.numVertices :
         /\ result.curvature[i] = file.values[i]
         /\ result.curvature[i] = getFloat32(buffer, CurvatureHeaderSize + 4 * (i - 1))
    /\ result = parseFreeSurferCurvature(Prefix(CurvatureBytes(plain), plain.cut))

C24_Witness ==
  /\ Done("curvature") /\ CompleteCurvature(file)
  /\ file.numFaces = -1
  /\ file.valuesPerVertex = 2
  /\ file.values = <<0, 1065353216, 0>>
  /\ file.numVertices = 3
  /\ result.status = "ok"
  /\ result.curvature = <<0, 1065353216, 0>>

(***************************************************************************)
(* Properties of the viewer                                                *)
(***************************************************************************)
StateActors == {hemisphereData[h].actor : h \in Hemispheres} \ {NoActor}

NoOpacityAnimation == \A a \in Actors : ~opacityAnimations[a].active

\* C25: a click on the selected label clears the selection and resets the
\* opacities of both hemispheres, a click on any other label selects that
\* label, and nothing but a click changes the selection; so the selection is
\* always null or the label clicked last, and two clicks on one label from no
\* selection end in no selection.
C25_ClickTogglesSelection ==
  [][/\ \A labelName \in Labels :
          handleLabelClick(labelName) =>
            IF currentSelectedLabel = labelName
            THEN /\ currentSelectedLabel' = Null
                 /\ \A a \in StateActors : lastTarget'[a] = FullOpacity
            ELSE currentSelectedLabel' = labelName
     /\ currentSelectedLabel' # currentSelectedLabel =>
          \E labelName \in Labels : handleLabelClick(labelName)]_vars

\* A label was clicked twice: its camera animation is still running and
\* nothing is selected.
C25_Witness ==
  /\ currentSelectedLabel = Null
  /\ PendingCameraAnimations > 0
  /\ geometryChanges = 0

\* C26: once no frame of an actor's opacity animation is pending, the actor's
\* opacity is the target of the latest animateOpacity call on it.
C26_OpacitySettlesAtLatestTarget ==
  \A a \in Actors :
    (~opacityAnimations[a].active /\ lastTarget[a] # NoTarget) =>
      actorOpacity[a] = lastTarget[a]

\* C27: with no label selected and no camera or opacity animation pending,
\* both hemisphere actors are at full opacity.
C27_UnselectedMeansFullOpacity ==
  (currentSelectedLabel = Null /\ PendingCameraAnimations = 0 /\ NoOpacityAnimation) =>
    \A a \in StateActors : actorOpacity[a] = FullOpacity

\* C28: once every geometry load has completed, the renderer holds exactly
\* the two actors recorded in the state, one per hemisphere, and the recorded
\* meshes are those of the current geometry.
C28_OneActorPerHemisphere ==
  geometryLoads = <<>> =>
    /\ hemisphereData["lh"].actor # hemisphereData["rh"].actor
    /\ rendererActors = {hemisphereData["lh"].actor, hemisphereData["rh"].actor}
    /\ \A h \in Hemispheres : hemisphereData[h].meshData = currentGeometry

\* C29: the interactor never has more than one animation listener, and an
\* animation event changes no opacity and starts no opacity animation while
\* the selection is null or names a label absent from labelsData.
C29_OneListenerIdleWithoutLabel ==
  /\ [](animationListeners <= 1)
  /\ [][(InteractorAnimation
          /\ (currentSelectedLabel = Null
                \/ currentSelectedLabel \notin DOMAIN labelsData))
         => UNCHANGED <<actorOpacity, opacityAnimations>>]_vars

\* The listener is registered, a second camera animation is about to call
\* setupCameraInteractionListener again, and the selected label is absent
\* from the labels of the atlas.
C29_Witness ==
  /\ animationListeners = 1
  /\ occlusionListenerActive
  /\ PendingCameraAnimations > 0
  /\ currentSelectedLabel # Null
  /\ currentSelectedLabel \notin DOMAIN labelsData

=============================================================================
